---- MODULE Spec2Model ----
(***************************************************************************)
(* Model of InMemoryEventStore (src/src/test_mcp_server.py): a per-stream  *)
(* bounded deque of EventEntry plus a global index event_id -> EventEntry, *)
(* used by asyncio tasks.  store_event has no await and runs as one step;  *)
(* replay_events_after suspends at every `await send_callback(...)`, so    *)
(* other tasks run between two deliveries.                                 *)
(* Further down: the agent API (src/src/api_main.py) over its database     *)
(* (src/src/database.py), the start of DatabaseManager, and                *)
(* wait_for_postgres (src/src/init_db.py).                                 *)
(***************************************************************************)
EXTENDS Integers, Sequences, FiniteSets, TLC

\* ---------------------------------------------------------------- bounds
MaxCap == 3
MaxEvents == 4

StreamIds == {"A", "B"}
Messages == {"m1", "m2"}
ReplayTasks == {"r1"}
None == "None"

\* the event store (src/src/test_mcp_server.py); store_exc is the exception
\* the latest store_event call raised, None when it returned
VARIABLES max_events_per_stream, streams, event_index, uuid_counter, tasks, stored,
          store_exc

\* the agent API (src/src/api_main.py) and its database (src/src/database.py)
\* history_reply is the reply get_thread_history has just produced; the next
\* step of anything else takes it off the wire
VARIABLES clock, threads, api_history, text_history, reqs, history_reply

esVars == <<max_events_per_stream, streams, event_index, uuid_counter, tasks, stored,
            store_exc>>

apiVars == <<clock, threads, api_history, text_history, reqs, history_reply>>

\* the start of the processes: the DatabaseManager of src/src/database.py
\* (its pool and schema_initialized, the initialize() calls in flight, the
\* tables it set up) and wait_for_postgres of src/src/init_db.py
VARIABLES pool, schema_initialized, callers, db_tables, schema_drops, wait

bootVars == <<pool, schema_initialized, callers, db_tables, schema_drops, wait>>

vars == <<esVars, apiVars, bootVars>>

\* ------------------------------------------------------------ data types
EventEntry(event_id, stream_id, message) ==
    [event_id |-> event_id, stream_id |-> stream_id, message |-> message]

EventMessage(message, event_id) ==
    [message |-> message, event_id |-> event_id]

\* collections.deque(maxlen=n): the items, the bound, and the mutation
\* counter that deque iterators compare against.
NewDeque(n) ==
    [items |-> <<>>, maxlen |-> n, state |-> 0]

\* deque() with no maxlen, the default of streams.get(...)
UnboundedDeque ==
    [items |-> <<>>, maxlen |-> -1, state |-> 0]

\* deque.append that ignores maxlen
DequeAppendUnbounded(dq, e) ==
    [dq EXCEPT !.items = Append(@, e), !.state = @ + 1]

\* deque.appendleft in place of deque.append
DequeAppendLeft(dq, e) ==
    LET grown == <<e>> \o dq.items
    IN  IF dq.maxlen >= 0 /\ Len(grown) > dq.maxlen
        THEN [dq EXCEPT !.items = SubSeq(grown, 1, dq.maxlen), !.state = @ + 2]
        ELSE [dq EXCEPT !.items = grown, !.state = @ + 1]

\* deque.append on a bounded deque: append on the right, then drop from the
\* left while the length exceeds maxlen; every mutation bumps `state`.
DequeAppend(dq, e) ==
    LET grown == Append(dq.items, e)
    IN  IF dq.maxlen >= 0 /\ Len(grown) > dq.maxlen
        THEN [dq EXCEPT !.items = Tail(grown), !.state = @ + 2]
        ELSE [dq EXCEPT !.items = grown, !.state = @ + 1]

\* dict.pop(key, None)
DictPop(d, k) ==
    [i \in (DOMAIN d) \ {k} |-> d[i]]

\* dict[key] = value
DictSet(d, k, v) ==
    [i \in (DOMAIN d) \cup {k} |-> IF i = k THEN v ELSE d[i]]

\* uuid4(): an identifier no earlier call returned
uuid4 == uuid_counter

\* ------------------------------------------------------------ store_event
\* every stream's deque is created at the first store_event of the store
EnsureAllStreams(strs, stream_id, n) ==
    [s \in StreamIds |-> IF s \in DOMAIN strs THEN strs[s] ELSE NewDeque(n)]

\* lines 56-57: create the stream's deque on first use
EnsureStream(strs, stream_id, n) ==
    IF stream_id \notin DOMAIN strs
    THEN DictSet(strs, stream_id, NewDeque(n))
    ELSE strs

\* store_event without lines 58-60: the index is never pruned
EvictFromIndexNever(index, dq, n) ==
    index

\* lines 58-60 with [-1] for [0]: the newest entry's id is dropped
EvictNewestFromIndex(index, dq, n) ==
    IF Len(dq.items) = n
    THEN [i \in (DOMAIN index) \ {dq.items[Len(dq.items)].event_id} |-> index[i]]
    ELSE index

\* lines 58-60: at capacity, drop the oldest entry's id from the index
EvictFromIndex(index, dq, n) ==
    IF Len(dq.items) = n
    THEN DictPop(index, dq.items[1].event_id)
    ELSE index

\* line 59: self.streams[stream_id][0] raises IndexError on an empty deque
OldestLookupRaises(dq, n) ==
    Len(dq.items) = n /\ Len(dq.items) = 0

store_event(stream_id, message) ==
    /\ uuid_counter <= MaxEvents
    /\ LET event_id == uuid4
           event_entry == EventEntry(event_id, stream_id, message)
           strs1 == EnsureStream(streams, stream_id, max_events_per_stream)
       IN  IF OldestLookupRaises(strs1[stream_id], max_events_per_stream)
           THEN \* the exception leaves store_event after lines 52-57
                /\ streams' = strs1
                /\ uuid_counter' = uuid_counter + 1
                /\ store_exc' = "IndexError"
                /\ UNCHANGED <<event_index, stored>>
           ELSE LET index1 == EvictFromIndex(event_index, strs1[stream_id],
                                             max_events_per_stream)
                IN  /\ streams' = [strs1 EXCEPT ![stream_id] =
                                      DequeAppend(@, event_entry)]
                    /\ event_index' = DictSet(index1, event_id, event_entry)
                    /\ uuid_counter' = uuid_counter + 1
                    /\ store_exc' = None
                    \* history of the calls: arguments and returned id
                    /\ stored' = [stored EXCEPT ![stream_id] =
                                     Append(@, [event_id |-> event_id,
                                                stream_id |-> stream_id,
                                                message |-> message])]
    /\ UNCHANGED <<max_events_per_stream, tasks, apiVars, bootVars>>

\* ----------------------------------------------------- replay_events_after
\* The locals of one replay_events_after call (a task).  pc: "idle" before
\* the first call, "awaiting" while suspended in `await send_callback(...)`,
\* "returned" after return, "raised" after an exception left the coroutine.
\* delivered is what send_callback has been called with, in call order.
\* call_total and call_status record, at the moment of the call, how many
\* store_event calls had been made on the id's stream and whether the id was
\* then unknown, evicted or retained.
IdleTask ==
    [pc |-> "idle", last_event_id |-> 0, stream_id |-> None,
     it_state |-> 0, it_pos |-> 0, it_counter |-> 0, found_last |-> FALSE,
     delivered |-> <<>>, result |-> None, exc |-> None,
     call_total |-> 0, call_status |-> None]

\* line 75: self.streams.get(last_event.stream_id, deque())
StreamEvents(strs, stream_id) ==
    IF stream_id \in DOMAIN strs THEN strs[stream_id] ELSE UnboundedDeque

\* a replay that reads one fixed stream whatever the entry says
ReplayStreamFixed(last_event) ==
    CHOOSE s \in StreamIds : TRUE

\* line 74: the stream the replay reads and reports
ReplayStream(last_event) ==
    last_event.stream_id

\* the loop with the two branches of lines 78-81 tested in the other order:
\* the entry carrying last_event_id is delivered too
RECURSIVE ReplayLoopInclusive(_, _)
ReplayLoopInclusive(t, strs) ==
    LET dq == StreamEvents(strs, t.stream_id)
    IN  IF dq.state # t.it_state
        THEN [t EXCEPT !.pc = "raised", !.exc = "RuntimeError",
                       !.it_pos = 0, !.it_counter = 0, !.it_state = 0,
                       !.found_last = FALSE]
        ELSE IF t.it_counter = 0
        THEN [t EXCEPT !.pc = "returned", !.result = t.stream_id,
                       !.it_pos = 0, !.it_state = 0, !.found_last = FALSE]
        ELSE LET event == dq.items[t.it_pos + 1]
                 t1 == [t EXCEPT !.it_pos = @ + 1, !.it_counter = @ - 1]
             IN  IF t.found_last \/ event.event_id = t.last_event_id
                 THEN [t1 EXCEPT !.pc = "awaiting", !.found_last = TRUE,
                                 !.delivered = Append(@,
                                     EventMessage(event.message, event.event_id))]
                 ELSE ReplayLoopInclusive(t1, strs)

\* lines 77-82: the for loop from the iterator's current position up to the
\* next `await send_callback(...)`, the return, or the RuntimeError that the
\* deque iterator raises when the deque was mutated since iter() was taken.
RECURSIVE ReplayLoop(_, _)
ReplayLoop(t, strs) ==
    LET dq == StreamEvents(strs, t.stream_id)
    IN  IF dq.state # t.it_state
        THEN [t EXCEPT !.pc = "raised", !.exc = "RuntimeError",
                       !.it_pos = 0, !.it_counter = 0, !.it_state = 0,
                       !.found_last = FALSE]
        ELSE IF t.it_counter = 0
        THEN [t EXCEPT !.pc = "returned", !.result = t.stream_id,
                       !.it_pos = 0, !.it_state = 0, !.found_last = FALSE]
        ELSE LET event == dq.items[t.it_pos + 1]
                 t1 == [t EXCEPT !.it_pos = @ + 1, !.it_counter = @ - 1]
             IN  IF t.found_last
                 THEN [t1 EXCEPT !.pc = "awaiting",
                                 !.delivered = Append(@,
                                     EventMessage(event.message, event.event_id))]
                 ELSE IF event.event_id = t.last_event_id
                 THEN ReplayLoop([t1 EXCEPT !.found_last = TRUE], strs)
                 ELSE ReplayLoop(t1, strs)

\* a lookup that answers an unknown id with an empty replay of stream ""
ReplayStartEmptySuccess(index, strs, last_event_id) ==
    IF last_event_id \notin DOMAIN index
    THEN [IdleTask EXCEPT !.pc = "returned", !.last_event_id = last_event_id,
                          !.result = ""]
    ELSE LET last_event == index[last_event_id]
             stream_id == last_event.stream_id
             stream_events == StreamEvents(strs, stream_id)
         IN  [IdleTask EXCEPT !.pc = "running",
                              !.last_event_id = last_event_id,
                              !.stream_id = stream_id,
                              !.it_state = stream_events.state,
                              !.it_counter = Len(stream_events.items)]

\* lines 70-76: the lookup, and the locals as the loop starts
ReplayStart(index, strs, last_event_id) ==
    IF last_event_id \notin DOMAIN index
    THEN [IdleTask EXCEPT !.pc = "returned", !.last_event_id = last_event_id,
                          !.result = None]
    ELSE LET last_event == index[last_event_id]
             stream_id == ReplayStream(last_event)
             stream_events == StreamEvents(strs, stream_id)
         IN  [IdleTask EXCEPT !.pc = "running",
                              !.last_event_id = last_event_id,
                              !.stream_id = stream_id,
                              !.it_state = stream_events.state,
                              !.it_counter = Len(stream_events.items)]

\* ------------------------------------------------- history of the calls
\* the stream whose store_event call returned id, or None
StreamOf(id) ==
    IF \E s \in StreamIds : \E i \in 1..Len(stored[s]) : stored[s][i].event_id = id
    THEN CHOOSE s \in StreamIds : \E i \in 1..Len(stored[s]) : stored[s][i].event_id = id
    ELSE None

\* position of the call that returned id among the calls on stream s
CallPos(s, id) ==
    CHOOSE i \in 1..Len(stored[s]) : stored[s][i].event_id = id

\* "never": no call returned id; "evicted": max_events_per_stream or more
\* calls were made on its stream after it; "retained" otherwise
StatusOf(id) ==
    IF StreamOf(id) = None THEN "never"
    ELSE IF Len(stored[StreamOf(id)]) - CallPos(StreamOf(id), id) >= max_events_per_stream
    THEN "evicted"
    ELSE "retained"

\* replay_events_after(last_event_id, send_callback) called by task r: runs
\* to the first await, to the return, or to the exception
replay_events_after(r, last_event_id) ==
    /\ tasks[r].pc # "awaiting"
    /\ LET t0 == ReplayStart(event_index, streams, last_event_id)
           t1 == [t0 EXCEPT !.call_status = StatusOf(last_event_id),
                            !.call_total =
                                IF StreamOf(last_event_id) = None THEN 0
                                ELSE Len(stored[StreamOf(last_event_id)])]
       IN  tasks' = [tasks EXCEPT ![r] =
                        IF t1.pc = "returned" THEN t1 ELSE ReplayLoop(t1, streams)]
    /\ UNCHANGED <<max_events_per_stream, streams, event_index, uuid_counter, stored,
                   store_exc, apiVars, bootVars>>

\* a replay that takes the id it was resumed from out of the index
ReplayResumeForgetting(r) ==
    /\ tasks[r].pc = "awaiting"
    /\ tasks' = [tasks EXCEPT ![r] = ReplayLoop(@, streams)]
    /\ event_index' = DictPop(event_index, tasks[r].last_event_id)
    /\ UNCHANGED <<max_events_per_stream, streams, uuid_counter, stored,
                   store_exc, apiVars, bootVars>>

\* send_callback completes and the coroutine resumes at the for statement
ReplayResume(r) ==
    /\ tasks[r].pc = "awaiting"
    /\ tasks' = [tasks EXCEPT ![r] = ReplayLoop(@, streams)]
    /\ UNCHANGED <<max_events_per_stream, streams, event_index, uuid_counter, stored,
                   store_exc, apiVars, bootVars>>

\* send_callback raises; the exception leaves replay_events_after
CallbackRaises(r) ==
    /\ tasks[r].pc = "awaiting"
    /\ tasks' = [tasks EXCEPT ![r] =
                    [@ EXCEPT !.pc = "raised", !.exc = "CallbackError",
                              !.it_pos = 0, !.it_counter = 0, !.it_state = 0,
                              !.found_last = FALSE]]
    /\ UNCHANGED <<max_events_per_stream, streams, event_index, uuid_counter, stored,
                   store_exc, apiVars, bootVars>>

\* ==================================================== the agent API
\* src/src/api_main.py over src/src/database.py.  Each request is an asyncio
\* task; a step of the model is the stretch of a handler from one database
\* or network await to the next.  One request at a time is followed through
\* its handler (Requests); what the requests running beside it do to the
\* tables appears as the OtherRequest... steps.  startup_event (api_main.py lines 395-407)
\* has opened the pool and set up the schema before any request is served,
\* so ensure_db_initialized finds db_manager.pool set and returns at once.

MaxClock == 1
MaxAgentEvents == 2
MaxThreads == 1
TicksPerDay == 2
MaxTextRows == 2
MaxApiRows == 2
EXPIRY_DAYS == 30

Requests == {"q1"}
Endpoints == {"invoke", "invoke_stream"}
HistoryModes == {"api", "local_text", "none"}
UserIds == {"u1", "u2"}
RespIds == {"r1", "r2"}
\* strings are sequences of characters
Deltas == {<<"a">>, <<"b">>}
UserInput == <<"q">>
\* the turn of another request
OtherInput == <<"p">>
OtherOutput == <<"o">>

\* request.thread_id absent (None or "")
NoThreadId == <<>>
\* a thread id no row carries
UnknownThreadId == <<"unknown_thread", 0>>

\* lines 119-127 / 223-231: the id of a new thread, from datetime.now()
NewThreadId(history_mode, now) ==
    IF history_mode = "api" THEN <<"api_thread", now>>
    ELSE IF history_mode = "local_text" THEN <<"text_thread", now>>
    ELSE <<"temp_thread", now>>

\* lines 119-127 / 223-231: the type of a new thread
NewThreadType(history_mode) ==
    IF history_mode = "api" THEN "api"
    ELSE IF history_mode = "local_text" THEN "text"
    ELSE "temp"

\* ------------------------------------------------------------ database.py
\* INSERT ... ON CONFLICT (id) DO UPDATE SET every column
CreateThreadOverwrite(thr, thread_id, thread_type, user_id, user_name, now) ==
    DictSet(thr, thread_id,
            [thread_type |-> thread_type, user_id |-> user_id,
             user_name |-> user_name, created_at |-> now,
             last_activity |-> now])

\* INSERT ... ON CONFLICT (id) DO UPDATE SET last_activity = NOW()
CreateThread(thr, thread_id, thread_type, user_id, user_name, now) ==
    IF thread_id \in DOMAIN thr
    THEN [thr EXCEPT ![thread_id].last_activity = now]
    ELSE DictSet(thr, thread_id,
                 [thread_type |-> thread_type, user_id |-> user_id,
                  user_name |-> user_name, created_at |-> now,
                  last_activity |-> now])

\* UPDATE agent.threads SET last_activity = NOW() WHERE id = $1
TouchThread(thr, thread_id, now) ==
    IF thread_id \in DOMAIN thr
    THEN [thr EXCEPT ![thread_id].last_activity = now]
    ELSE thr

\* INSERT INTO agent.api_history ... ON CONFLICT (thread_id, response_id) DO NOTHING
AddApiHistoryEntry(rows, thread_id, response_id, created_at, expires_at) ==
    IF \E i \in 1..Len(rows) :
          rows[i].thread_id = thread_id /\ rows[i].response_id = response_id
    THEN rows
    ELSE Append(rows, [thread_id |-> thread_id, response_id |-> response_id,
                       created_at |-> created_at, expires_at |-> expires_at])

\* api_main.py lines 52-53: now + timedelta(days=EXPIRY_DAYS)
ExpiresAt(now) ==
    now + EXPIRY_DAYS * TicksPerDay

\* the query with ORDER BY created_at ASC: one of the oldest valid rows
OldestValidApiResponses(rows, thread_id, now) ==
    LET valid == {i \in 1..Len(rows) :
                     rows[i].thread_id = thread_id /\ rows[i].expires_at > now}
        oldest == {i \in valid : \A j \in valid : rows[i].created_at <= rows[j].created_at}
    IN  IF valid = {} THEN {None} ELSE {rows[i].response_id : i \in oldest}

\* SELECT response_id ... WHERE thread_id = $1 AND expires_at > NOW()
\* ORDER BY created_at DESC LIMIT 1: the candidates (one of the newest rows)
LatestValidApiResponses(rows, thread_id, now) ==
    LET valid == {i \in 1..Len(rows) :
                     rows[i].thread_id = thread_id /\ rows[i].expires_at > now}
        newest == {i \in valid : \A j \in valid : rows[j].created_at <= rows[i].created_at}
    IN  IF valid = {} THEN {None} ELSE {rows[i].response_id : i \in newest}

\* SELECT COALESCE(MAX(sequence_number), 0) + 1 ... WHERE thread_id = $1
NextSeq(rows, thread_id) ==
    LET seqs == {rows[i].sequence_number : i \in
                    {j \in 1..Len(rows) : rows[j].thread_id = thread_id}}
    IN  IF seqs = {} THEN 1
        ELSE (CHOOSE m \in seqs : \A x \in seqs : x <= m) + 1

\* INSERT INTO agent.text_history (...)
InsertTextHistory(rows, thread_id, user_input, assistant_response, seq) ==
    Append(rows, [thread_id |-> thread_id, user_input |-> user_input,
                  assistant_response |-> assistant_response,
                  sequence_number |-> seq])

\* the rows of one thread, in insertion order
RowsOf(rows, thread_id) ==
    SelectSeq(rows, LAMBDA r : r.thread_id = thread_id)

\* ORDER BY sequence_number (rows of equal number in insertion order)
RECURSIVE OrderBySequenceNumber(_)
OrderBySequenceNumber(rows) ==
    IF rows = <<>> THEN <<>>
    ELSE LET least == CHOOSE i \in 1..Len(rows) :
                         /\ \A j \in 1..Len(rows) :
                               rows[i].sequence_number <= rows[j].sequence_number
                         /\ \A j \in 1..(i - 1) :
                               rows[j].sequence_number # rows[i].sequence_number
         IN  <<rows[least]>> \o
             OrderBySequenceNumber(SubSeq(rows, 1, least - 1) \o
                                   SubSeq(rows, least + 1, Len(rows)))

\* get_text_history lines 212-231: the turns, "User: ..", "Assistant: ..", ""
GetTextHistory(rows, thread_id) ==
    LET ordered == OrderBySequenceNumber(RowsOf(rows, thread_id))
    IN  [i \in 1..Len(ordered) |->
            [user_input |-> ordered[i].user_input,
             assistant_response |-> ordered[i].assistant_response]]

\* get_api_history lines 179-188 (ORDER BY created_at DESC among a thread's
\* rows; rows are inserted in clock order, so newest first is reverse order)
GetApiHistory(rows, thread_id) ==
    LET mine == RowsOf(rows, thread_id)
    IN  [i \in 1..Len(mine) |-> mine[Len(mine) + 1 - i]]

\* ------------------------------------------------------------ api_main.py
\* one Server-Sent Event: json.dumps({'type': ..., ...}); the keys an event
\* type does not carry are None / <<>> / FALSE here
Event(type, thread_id, new_thread_created, content) ==
    [type |-> type, thread_id |-> thread_id,
     new_thread_created |-> new_thread_created, content |-> content]

MetadataEvent(thread_id, new_thread_created) ==
    Event("metadata", thread_id, new_thread_created, <<>>)

DeltaEvent(delta) ==
    Event("delta", NoThreadId, FALSE, delta)

MessageIdEvent(message_id) ==
    Event("message_id", NoThreadId, FALSE, <<message_id>>)

DoneEvent(thread_id, final_output) ==
    Event("done", thread_id, FALSE, final_output)

ErrorEvent ==
    Event("error", NoThreadId, FALSE, <<>>)

StreamEndEvent ==
    Event("stream_end", NoThreadId, FALSE, <<>>)

\* no reply to GET /threads/{thread_id}/history is being sent
NoReply ==
    [status |-> 0, thread_id |-> NoThreadId, user_id |-> None,
     history_type |-> None, history |-> <<>>]

NoResponse ==
    [status |-> 0, assistant_output |-> <<>>, thread_id |-> NoThreadId,
     new_thread_created |-> FALSE]

\* InvokeResponse, lines 192-196, or a 500
Response(status, assistant_output, thread_id, new_thread_created) ==
    [status |-> status, assistant_output |-> assistant_output,
     thread_id |-> thread_id, new_thread_created |-> new_thread_created]

\* The locals of one request.  pc names the await the task is suspended at:
\* "lookup" get_thread, "create" create_thread, "mcp" entering
\* MCPServerStreamableHttp, "load" the history read, "run" the agent run,
\* "save" / "save_insert" the history write, "mcp_exit" leaving the MCP
\* context; "finished" after the response or the last event, "crashed" when
\* an exception left generate_stream.  row_inserted records whether
\* create_thread added a row to agent.threads; saved_under is the thread
\* the request wrote history under; failed_at is the await an exception came
\* out of.
IdleRequest ==
    [pc |-> "idle", endpoint |-> "invoke", history_mode |-> "none",
     thread_id |-> NoThreadId, user_id |-> None,
     current_thread_id |-> NoThreadId, thread_found |-> FALSE,
     thread_type |-> None, new_thread_created |-> FALSE,
     previous_response_id |-> None, final_output |-> <<>>,
     last_message_id |-> None, save_response_id |-> None,
     next_seq |-> 0, agent_events |-> 0,
     events |-> <<>>, response |-> NoResponse,
     row_inserted |-> FALSE, saved_under |-> NoThreadId,
     failed_at |-> None]

\* an exception inside the try of generate_stream (lines 327-332): the
\* 'error' event, then 'stream_end'
StreamFailsInTry(r) ==
    [r EXCEPT !.pc = "finished", !.failed_at = r.pc,
              !.events = @ \o <<ErrorEvent, StreamEndEvent>>]

\* an exception before the try of generate_stream (lines 207-237): it leaves
\* the generator; nothing is yielded
StreamFailsBeforeTry(r) ==
    [r EXCEPT !.pc = "crashed", !.failed_at = r.pc]

\* an exception in invoke_agent: HTTP 500
InvokeFails(r) ==
    [r EXCEPT !.pc = "finished", !.failed_at = r.pc,
              !.response = Response(500, <<>>, NoThreadId, FALSE)]

\* the thread is settled and the stream goes on without 'metadata'
ThreadSettledSilent(r) ==
    [r EXCEPT !.pc = "mcp"]

\* the thread is settled (lines 108-130 / 212-234); the stream yields
\* 'metadata' (line 237) and the handler goes on to the MCP connection
ThreadSettled(r) ==
    IF r.endpoint = "invoke_stream"
    THEN [r EXCEPT !.pc = "mcp",
                   !.events = <<MetadataEvent(r.current_thread_id,
                                              r.new_thread_created)>>]
    ELSE [r EXCEPT !.pc = "mcp"]

\* a request arrives: lines 99-113 / 199-217 up to the first database await
StartRequest(q, endpoint, history_mode, thread_id, user_id) ==
    /\ reqs[q].pc = "idle"
    /\ reqs' = [reqs EXCEPT ![q] =
                   [IdleRequest EXCEPT
                       !.pc = IF thread_id # NoThreadId THEN "lookup" ELSE "create",
                       !.endpoint = endpoint,
                       !.history_mode = history_mode,
                       !.thread_id = thread_id,
                       !.user_id = user_id,
                       !.current_thread_id = thread_id]]
    /\ history_reply' = NoReply
    /\ UNCHANGED <<clock, threads, api_history, text_history, esVars, bootVars>>

\* lines 113-118 / 217-222: get_thread, then either on to create_thread or,
\* the thread found, on to 'metadata' and the MCP connection
LookupThread(q, ok) ==
    /\ reqs[q].pc = "lookup"
    /\ LET r == reqs[q]
           found == r.thread_id \in DOMAIN threads
       IN  reqs' = [reqs EXCEPT ![q] =
              IF ~ok
              THEN IF r.endpoint = "invoke_stream"
                   THEN StreamFailsBeforeTry(r) ELSE InvokeFails(r)
              ELSE IF found
              THEN ThreadSettled([r EXCEPT !.thread_found = TRUE,
                                           !.thread_type = threads[r.thread_id].thread_type])
              ELSE [r EXCEPT !.pc = "create"]]
    /\ history_reply' = NoReply
    /\ UNCHANGED <<clock, threads, api_history, text_history, esVars, bootVars>>

\* lines 118-130 / 222-237: the new id, create_thread, 'metadata'
CreateNewThread(q, ok) ==
    /\ reqs[q].pc = "create"
    /\ LET r == reqs[q]
           id == NewThreadId(r.history_mode, clock)
           type == NewThreadType(r.history_mode)
       IN  IF ~ok
           THEN /\ reqs' = [reqs EXCEPT ![q] =
                       IF r.endpoint = "invoke_stream"
                       THEN StreamFailsBeforeTry(r) ELSE InvokeFails(r)]
                /\ UNCHANGED threads
           ELSE /\ threads' = CreateThread(threads, id, type, r.user_id, None, clock)
                /\ reqs' = [reqs EXCEPT ![q] =
                       ThreadSettled([r EXCEPT !.current_thread_id = id,
                                               !.thread_type = type,
                                               !.new_thread_created = TRUE,
                                               !.row_inserted = id \notin DOMAIN threads])]
    /\ history_reply' = NoReply
    /\ UNCHANGED <<clock, api_history, text_history, esVars, bootVars>>

\* lines 132-136 / 240-244: entering `async with MCPServerStreamableHttp`;
\* then lines 138-162 / 246-271 up to the history read
ConnectMcp(q, ok) ==
    /\ reqs[q].pc = "mcp"
    /\ LET r == reqs[q]
       IN  reqs' = [reqs EXCEPT ![q] =
              IF ~ok
              THEN IF r.endpoint = "invoke_stream"
                   THEN StreamFailsInTry(r) ELSE InvokeFails(r)
              ELSE IF r.history_mode \in {"local_text", "api"}
                      /\ r.current_thread_id # NoThreadId
              THEN [r EXCEPT !.pc = "load"]
              ELSE [r EXCEPT !.pc = "run"]]
    /\ history_reply' = NoReply
    /\ UNCHANGED <<clock, threads, api_history, text_history, esVars, bootVars>>

\* lines 164-177 / 273-283: the text history or the latest valid response id
LoadHistory(q, ok) ==
    /\ reqs[q].pc = "load"
    /\ LET r == reqs[q]
       IN  \E prev \in LatestValidApiResponses(api_history, r.current_thread_id, clock) :
              reqs' = [reqs EXCEPT ![q] =
                 IF ~ok
                 THEN IF r.endpoint = "invoke_stream"
                      THEN StreamFailsInTry(r) ELSE InvokeFails(r)
                 ELSE IF r.history_mode = "api"
                 THEN [r EXCEPT !.pc = "run", !.previous_response_id = prev]
                 ELSE [r EXCEPT !.pc = "run"]]
    /\ history_reply' = NoReply
    /\ UNCHANGED <<clock, threads, api_history, text_history, esVars, bootVars>>

\* 'done' (line 325), then on to leaving the MCP context
YieldDone(r) ==
    [r EXCEPT !.pc = "mcp_exit",
              !.events = Append(@, DoneEvent(r.current_thread_id, r.final_output))]

\* the delta is put in front of final_output
OnDeltaPrepend(r, delta) ==
    [r EXCEPT !.final_output = delta \o @,
              !.events = Append(@, DeltaEvent(delta)),
              !.agent_events = @ + 1]

\* lines 292-298: a text delta is added to final_output and yielded
OnDelta(r, delta) ==
    [r EXCEPT !.final_output = @ \o delta,
              !.events = Append(@, DeltaEvent(delta)),
              !.agent_events = @ + 1]

\* lines 300-307: a message_output_item with an id
OnMessageId(r, message_id) ==
    [r EXCEPT !.last_message_id = message_id,
              !.events = Append(@, MessageIdEvent(message_id)),
              !.agent_events = @ + 1]

\* one event of result_stream.stream_events(): kind "delta" (lines 293-298),
\* "message_id" (lines 300-307), or "raise" when the run fails
AgentStreamEvent(q, kind, delta, message_id) ==
    /\ reqs[q].pc = "run"
    /\ reqs[q].endpoint = "invoke_stream"
    /\ kind # "raise" => reqs[q].agent_events < MaxAgentEvents
    /\ LET r == reqs[q]
       IN  reqs' = [reqs EXCEPT ![q] =
              IF kind = "delta" THEN OnDelta(r, delta)
              ELSE IF kind = "message_id" THEN OnMessageId(r, message_id)
              ELSE StreamFailsInTry(r)]
    /\ history_reply' = NoReply
    /\ UNCHANGED <<clock, threads, api_history, text_history, esVars, bootVars>>

\* the stream of agent events is exhausted: lines 309-325 up to the history
\* write, or to 'done' when there is nothing to write
AgentStreamEnds(q, fallback_id) ==
    /\ reqs[q].pc = "run"
    /\ reqs[q].endpoint = "invoke_stream"
    /\ LET r == reqs[q]
           id == IF r.last_message_id # None THEN r.last_message_id ELSE fallback_id
       IN  reqs' = [reqs EXCEPT ![q] =
              IF r.history_mode = "local_text" /\ r.current_thread_id # NoThreadId
                 /\ r.final_output # <<>>
              THEN [r EXCEPT !.pc = "save"]
              ELSE IF r.history_mode = "api" /\ r.current_thread_id # NoThreadId
                      /\ id # None
              THEN [r EXCEPT !.pc = "save", !.save_response_id = id]
              ELSE YieldDone(r)]
    /\ history_reply' = NoReply
    /\ UNCHANGED <<clock, threads, api_history, text_history, esVars, bootVars>>

\* a handler that records "Error: No output from agent." as the turn of a
\* run that raised, before answering 500
AgentRunRecordingFailure(q, ok, final_output, last_response_id) ==
    /\ reqs[q].pc = "run"
    /\ reqs[q].endpoint = "invoke"
    /\ LET r == reqs[q]
           r1 == [r EXCEPT !.final_output = final_output]
       IN  /\ reqs' = [reqs EXCEPT ![q] =
                 IF ~ok THEN InvokeFails(r)
                 ELSE IF r.history_mode = "local_text" /\ r.current_thread_id # NoThreadId
                 THEN [r1 EXCEPT !.pc = "save"]
                 ELSE IF r.history_mode = "api" /\ r.current_thread_id # NoThreadId
                         /\ last_response_id # None
                 THEN [r1 EXCEPT !.pc = "save", !.save_response_id = last_response_id]
                 ELSE [r1 EXCEPT !.pc = "mcp_exit"]]
           /\ text_history' =
                 IF ~ok
                 THEN InsertTextHistory(text_history, r.current_thread_id, UserInput,
                                        <<"E">>, NextSeq(text_history, r.current_thread_id))
                 ELSE text_history
    /\ history_reply' = NoReply
    /\ UNCHANGED <<clock, threads, api_history, esVars, bootVars>>

\* lines 179-190: Runner.run returns (final_output, last_response_id) or raises
AgentRun(q, ok, final_output, last_response_id) ==
    /\ reqs[q].pc = "run"
    /\ reqs[q].endpoint = "invoke"
    /\ LET r == reqs[q]
           r1 == [r EXCEPT !.final_output = final_output]
       IN  reqs' = [reqs EXCEPT ![q] =
              IF ~ok THEN InvokeFails(r)
              ELSE IF r.history_mode = "local_text" /\ r.current_thread_id # NoThreadId
              THEN [r1 EXCEPT !.pc = "save"]
              ELSE IF r.history_mode = "api" /\ r.current_thread_id # NoThreadId
                      /\ last_response_id # None
              THEN [r1 EXCEPT !.pc = "save", !.save_response_id = last_response_id]
              ELSE [r1 EXCEPT !.pc = "mcp_exit"]]
    /\ history_reply' = NoReply
    /\ UNCHANGED <<clock, threads, api_history, text_history, esVars, bootVars>>

\* the history write is done: 'done' for the stream; then the MCP context
AfterSave(r) ==
    IF r.endpoint = "invoke_stream"
    THEN YieldDone([r EXCEPT !.saved_under = r.current_thread_id])
    ELSE [r EXCEPT !.pc = "mcp_exit", !.saved_under = r.current_thread_id]

\* add_text_history_entry lines 195-200: the SELECT of the next number
SelectNextSeq(q, ok) ==
    /\ reqs[q].pc = "save"
    /\ reqs[q].history_mode = "local_text"
    /\ LET r == reqs[q]
       IN  reqs' = [reqs EXCEPT ![q] =
              IF ~ok
              THEN IF r.endpoint = "invoke_stream"
                   THEN StreamFailsInTry(r) ELSE InvokeFails(r)
              ELSE [r EXCEPT !.pc = "save_insert",
                             !.next_seq = NextSeq(text_history, r.current_thread_id)]]
    /\ history_reply' = NoReply
    /\ UNCHANGED <<clock, threads, api_history, text_history, esVars, bootVars>>

\* add_text_history_entry lines 202-210: the INSERT and the UPDATE
InsertTextRow(q, ok) ==
    /\ reqs[q].pc = "save_insert"
    /\ LET r == reqs[q]
       IN  IF ~ok
           THEN /\ reqs' = [reqs EXCEPT ![q] =
                       IF r.endpoint = "invoke_stream"
                       THEN StreamFailsInTry(r) ELSE InvokeFails(r)]
                /\ UNCHANGED <<threads, text_history>>
           ELSE /\ text_history' = InsertTextHistory(text_history, r.current_thread_id,
                                       UserInput, r.final_output, r.next_seq)
                /\ threads' = TouchThread(threads, r.current_thread_id, clock)
                /\ reqs' = [reqs EXCEPT ![q] = AfterSave(r)]
    /\ history_reply' = NoReply
    /\ UNCHANGED <<clock, api_history, esVars, bootVars>>

\* add_response_to_api_thread_history lines 48-54 over add_api_history_entry
SaveApiResponse(q, ok) ==
    /\ reqs[q].pc = "save"
    /\ reqs[q].history_mode = "api"
    /\ LET r == reqs[q]
       IN  IF ~ok
           THEN /\ reqs' = [reqs EXCEPT ![q] =
                       IF r.endpoint = "invoke_stream"
                       THEN StreamFailsInTry(r) ELSE InvokeFails(r)]
                /\ UNCHANGED <<threads, api_history>>
           ELSE /\ api_history' = AddApiHistoryEntry(api_history, r.current_thread_id,
                                     r.save_response_id, clock, ExpiresAt(clock))
                /\ threads' = TouchThread(threads, r.current_thread_id, clock)
                /\ reqs' = [reqs EXCEPT ![q] = AfterSave(r)]
    /\ history_reply' = NoReply
    /\ UNCHANGED <<clock, text_history, esVars, bootVars>>

\* leaving `async with MCPServerStreamableHttp`: the response (lines
\* 192-196) or 'stream_end' (line 332); a failing exit is an exception like
\* any other in the block
LeaveMcp(q, ok) ==
    /\ reqs[q].pc = "mcp_exit"
    /\ LET r == reqs[q]
       IN  reqs' = [reqs EXCEPT ![q] =
              IF r.endpoint = "invoke_stream"
              THEN IF ok
                   THEN [r EXCEPT !.pc = "finished",
                                  !.events = Append(@, StreamEndEvent)]
                   ELSE StreamFailsInTry(r)
              ELSE IF ok
                   THEN [r EXCEPT !.pc = "finished",
                                  !.response = Response(200, r.final_output,
                                                        r.current_thread_id,
                                                        r.new_thread_created)]
                   ELSE InvokeFails(r)]
    /\ history_reply' = NoReply
    /\ UNCHANGED <<clock, threads, api_history, text_history, esVars, bootVars>>

\* lines 118-130 / 222-234 of a request running beside the followed one: its
\* create_thread, under the id datetime.now() gives it
OtherRequestCreatesThread(history_mode, user_id) ==
    /\ Cardinality(DOMAIN threads) < MaxThreads
    /\ threads' = CreateThread(threads, NewThreadId(history_mode, clock),
                               NewThreadType(history_mode), user_id, None, clock)
    /\ history_reply' = NoReply
    /\ UNCHANGED <<clock, api_history, text_history, reqs, esVars, bootVars>>

\* line 190 / 315 of a request running beside the followed one on thread
\* thread_id: its add_response_to_api_thread_history
OtherRequestSavesApiResponse(thread_id, response_id) ==
    /\ thread_id \in DOMAIN threads
    /\ Len(api_history) < MaxApiRows
    /\ api_history' = AddApiHistoryEntry(api_history, thread_id, response_id,
                                         clock, ExpiresAt(clock))
    /\ api_history' # api_history
    /\ threads' = TouchThread(threads, thread_id, clock)
    /\ history_reply' = NoReply
    /\ UNCHANGED <<clock, text_history, reqs, esVars, bootVars>>

\* line 188 / 311 of a request running beside the followed one on thread
\* thread_id: its add_text_history_entry, SELECT and INSERT with nothing
\* of the followed request in between
OtherRequestAppendsText(thread_id) ==
    /\ thread_id \in DOMAIN threads
    /\ Len(text_history) < MaxTextRows
    /\ text_history' = InsertTextHistory(text_history, thread_id, OtherInput,
                            OtherOutput, NextSeq(text_history, thread_id))
    /\ threads' = TouchThread(threads, thread_id, clock)
    /\ history_reply' = NoReply
    /\ UNCHANGED <<clock, api_history, reqs, esVars, bootVars>>

\* the owner test that lets a thread without owner through
AccessDeniedUnlessOwnerless(thr, thread_id, user_id) ==
    \/ thread_id \notin DOMAIN thr
    \/ (thr[thread_id].user_id # None /\ thr[thread_id].user_id # user_id)

\* line 359: not thread or thread.get('user_id') != user_id
AccessDenied(thr, thread_id, user_id) ==
    \/ thread_id \notin DOMAIN thr
    \/ thr[thread_id].user_id # user_id

\* GET /threads/{thread_id}/history?user_id=..., lines 353-367; asked while
\* the followed request is not in flight (every step of a request can fail
\* and end it, so the tables of every moment are met this way)
get_thread_history(thread_id, user_id) ==
    /\ \A q \in Requests : reqs[q].pc \in {"idle", "finished", "crashed"}
    /\ history_reply' =
          IF AccessDenied(threads, thread_id, user_id)
          THEN [status |-> 403, thread_id |-> thread_id, user_id |-> user_id,
                history_type |-> None, history |-> <<>>]
          ELSE IF threads[thread_id].thread_type = "text"
          THEN [status |-> 200, thread_id |-> thread_id, user_id |-> user_id,
                history_type |-> "text",
                history |-> GetTextHistory(text_history, thread_id)]
          ELSE [status |-> 200, thread_id |-> thread_id, user_id |-> user_id,
                history_type |-> "api",
                history |-> GetApiHistory(api_history, thread_id)]
    /\ UNCHANGED <<clock, threads, api_history, text_history, reqs, esVars, bootVars>>

\* time passes: datetime.now() and NOW() read a later value
Tick ==
    /\ clock < MaxClock
    /\ clock' = clock + 1
    /\ history_reply' = NoReply
    /\ UNCHANGED <<threads, api_history, text_history, reqs, esVars, bootVars>>

\* EXPIRY_DAYS go by with no request served
LongWait ==
    /\ clock <= MaxClock
    /\ clock' = clock + EXPIRY_DAYS * TicksPerDay
    /\ history_reply' = NoReply
    /\ UNCHANGED <<threads, api_history, text_history, reqs, esVars, bootVars>>

\* the API as startup_event leaves it: empty tables, no request yet
ApiIdle ==
    /\ clock = 0
    /\ threads = <<>>
    /\ api_history = <<>>
    /\ text_history = <<>>
    /\ reqs = [q \in Requests |-> IdleRequest]
    /\ history_reply = NoReply

\* ------------------------------------------- DatabaseManager.initialize
MaxSchemaDrops == 2
MaxDbRows == 1

Callers == {"c1", "c2"}

\* one caller of initialize(): pc "create_pool" while suspended in
\* asyncpg.create_pool, "schema_drop" and "schema_create" while suspended in
\* the statements of ensure_schema, "done" after the return, "failed" after
\* an exception
IdleCaller ==
    [pc |-> "idle"]

\* the tables of the agent schema: whether they exist, the rows written to
\* them, and whether a DROP has destroyed rows
NoTables ==
    [exist |-> FALSE, rows |-> 0, rows_dropped |-> FALSE]

\* initialize() / ensure_db_initialized() (lines 20-23, 237-240): nothing
\* to do when the pool is set, else on to create_pool
initialize(c) ==
    /\ callers[c].pc = "idle"
    /\ callers' = [callers EXCEPT ![c].pc =
                      IF pool # None THEN "done" ELSE "create_pool"]
    /\ UNCHANGED <<pool, schema_initialized, db_tables, schema_drops, wait,
                   esVars, apiVars>>

\* lines 24-33 and 47-50: create_pool returns and self.pool is set, then
\* ensure_schema tests schema_initialized; or create_pool raises
PoolCreated(c, ok) ==
    /\ callers[c].pc = "create_pool"
    /\ IF ok
       THEN /\ pool' = "pool"
            /\ callers' = [callers EXCEPT ![c].pc =
                              IF schema_initialized THEN "done" ELSE "schema_drop"]
       ELSE /\ callers' = [callers EXCEPT ![c].pc = "failed"]
            /\ UNCHANGED pool
    /\ UNCHANGED <<schema_initialized, db_tables, schema_drops, wait,
                   esVars, apiVars>>

\* lines 52-58: CREATE SCHEMA IF NOT EXISTS and the three DROP TABLE IF
\* EXISTS ... CASCADE
DropTables(c, ok) ==
    /\ callers[c].pc = "schema_drop"
    /\ schema_drops < MaxSchemaDrops
    /\ IF ok
       THEN /\ db_tables' = [exist |-> FALSE, rows |-> 0,
                             rows_dropped |-> db_tables.rows_dropped
                                              \/ db_tables.rows > 0]
            /\ schema_drops' = schema_drops + 1
            /\ callers' = [callers EXCEPT ![c].pc = "schema_create"]
       ELSE /\ callers' = [callers EXCEPT ![c].pc = "failed"]
            /\ UNCHANGED <<db_tables, schema_drops>>
    /\ UNCHANGED <<pool, schema_initialized, wait, esVars, apiVars>>

\* lines 60-112: the CREATE TABLE and CREATE INDEX statements (they fail
\* when the tables exist), then schema_initialized = True
CreateTables(c, ok) ==
    /\ callers[c].pc = "schema_create"
    /\ IF ok /\ ~db_tables.exist
       THEN /\ db_tables' = [db_tables EXCEPT !.exist = TRUE]
            /\ schema_initialized' = TRUE
            /\ callers' = [callers EXCEPT ![c].pc = "done"]
       ELSE /\ callers' = [callers EXCEPT ![c].pc = "failed"]
            /\ UNCHANGED <<db_tables, schema_initialized>>
    /\ UNCHANGED <<pool, schema_drops, wait, esVars, apiVars>>

\* the caller has its answer and may call again
CallerReturns(c) ==
    /\ callers[c].pc \in {"done", "failed"}
    /\ callers' = [callers EXCEPT ![c].pc = "idle"]
    /\ UNCHANGED <<pool, schema_initialized, db_tables, schema_drops, wait,
                   esVars, apiVars>>

\* close(), lines 39-43; pool.close() waits for the connections in use
close ==
    /\ pool # None
    /\ \A c \in Callers : callers[c].pc \notin {"schema_drop", "schema_create"}
    /\ pool' = None
    /\ UNCHANGED <<schema_initialized, callers, db_tables, schema_drops, wait,
                   esVars, apiVars>>

\* a row is written through the manager (create_thread, add_..._entry)
WriteRow ==
    /\ pool # None
    /\ db_tables.exist
    /\ db_tables.rows < MaxDbRows
    /\ db_tables' = [db_tables EXCEPT !.rows = @ + 1]
    /\ UNCHANGED <<pool, schema_initialized, callers, schema_drops, wait,
                   esVars, apiVars>>

\* ------------------------------------------------------ wait_for_postgres
MaxAttempts == 3

\* os.getenv("DATABASE_URL"): unset, empty, or a URL
DatabaseUrls == {None, "", "postgresql://db"}

\* the locals of wait_for_postgres (src/src/init_db.py lines 13-33).  pc:
\* "connect", "execute", "close" while suspended in the three awaits of
\* the try, "sleep" in asyncio.sleep(2), "returned", "raised".  connects
\* counts the asyncpg.connect calls made, log holds how each attempt ended.
IdleWait ==
    [pc |-> "idle", database_url |-> None, max_attempts |-> 0, attempt |-> 0,
     connects |-> 0, log |-> <<>>, result |-> None, exc |-> None]

\* the loop goes on while attempts up to and including max_attempts remain
AttemptsLeftInclusive(attempt, max_attempts) ==
    attempt <= max_attempts

\* line 22: for attempt in range(max_attempts)
AttemptsLeft(attempt, max_attempts) ==
    attempt < max_attempts

\* line 22: the next pass of the loop, or line 33 when range is exhausted
NextAttempt(w, attempt) ==
    IF AttemptsLeft(attempt, w.max_attempts)
    THEN [w EXCEPT !.pc = "connect", !.attempt = attempt]
    ELSE [w EXCEPT !.pc = "raised", !.exc = "Exception"]

\* lines 29-31: the except of one attempt, up to asyncio.sleep(2)
AttemptFails(w, how) ==
    [w EXCEPT !.pc = "sleep", !.log = Append(@, how)]

\* lines 13-22: the call, up to the first asyncpg.connect
wait_for_postgres(database_url, max_attempts) ==
    /\ wait.pc = "idle"
    /\ LET w == [wait EXCEPT !.database_url = database_url,
                             !.max_attempts = max_attempts]
       IN  wait' = IF database_url \in {None, ""}
                   THEN [w EXCEPT !.pc = "raised", !.exc = "ValueError"]
                   ELSE NextAttempt(w, 0)
    /\ UNCHANGED <<pool, schema_initialized, callers, db_tables, schema_drops,
                   esVars, apiVars>>

\* line 24: await asyncpg.connect(database_url)
Connect(ok) ==
    /\ wait.pc = "connect"
    /\ wait' = IF ok THEN [wait EXCEPT !.pc = "execute", !.connects = @ + 1]
                ELSE AttemptFails([wait EXCEPT !.connects = @ + 1], "connect")
    /\ UNCHANGED <<pool, schema_initialized, callers, db_tables, schema_drops,
                   esVars, apiVars>>

\* line 25: await conn.execute("SELECT 1")
Execute(ok) ==
    /\ wait.pc = "execute"
    /\ wait' = IF ok THEN [wait EXCEPT !.pc = "close"]
                ELSE AttemptFails(wait, "execute")
    /\ UNCHANGED <<pool, schema_initialized, callers, db_tables, schema_drops,
                   esVars, apiVars>>

\* lines 26-28: await conn.close(), then return True
CloseConnection(ok) ==
    /\ wait.pc = "close"
    /\ wait' = IF ok THEN [wait EXCEPT !.pc = "returned", !.result = TRUE,
                                        !.log = Append(@, "ok")]
                ELSE AttemptFails(wait, "close")
    /\ UNCHANGED <<pool, schema_initialized, callers, db_tables, schema_drops,
                   esVars, apiVars>>

\* line 31: asyncio.sleep(2) is over; back to the for statement
SleepOver ==
    /\ wait.pc = "sleep"
    /\ wait' = NextAttempt(wait, wait.attempt + 1)
    /\ UNCHANGED <<pool, schema_initialized, callers, db_tables, schema_drops,
                   esVars, apiVars>>

\* ------------------------------------------------------- specification
\* no process started: the manager as constructed (lines 16-18), no tables
NotBooted ==
    /\ pool = None
    /\ schema_initialized = FALSE
    /\ callers = [c \in Callers |-> IdleCaller]
    /\ db_tables = NoTables
    /\ schema_drops = 0
    /\ wait = IdleWait

\* after wait_for_postgres and startup_event (api_main.py lines 395-407): the
\* pool is open and the schema set up, once
Booted ==
    /\ pool = "pool"
    /\ schema_initialized = TRUE
    /\ callers = [c \in Callers |-> IdleCaller]
    /\ db_tables = [NoTables EXCEPT !.exist = TRUE]
    /\ schema_drops = 1
    /\ wait = IdleWait

\* InMemoryEventStore(max_events_per_stream=n), lines 44-47
EventStoreInit(caps) ==
    /\ max_events_per_stream \in caps
    /\ streams = <<>>
    /\ event_index = <<>>
    /\ uuid_counter = 1
    /\ tasks = [r \in ReplayTasks |-> IdleTask]
    /\ stored = [s \in StreamIds |-> <<>>]
    /\ store_exc = None

Init ==
    /\ EventStoreInit(1..MaxCap)
    /\ ApiIdle
    /\ Booted

Next ==
    \/ \E s \in StreamIds, m \in Messages : store_event(s, m)
    \/ \E r \in ReplayTasks, id \in 1..(MaxEvents + 1) : replay_events_after(r, id)
    \/ \E r \in ReplayTasks : ReplayResume(r)
    \/ \E r \in ReplayTasks : CallbackRaises(r)

Spec == Init /\ [][Next]_vars

\* the event store for every capacity deque(maxlen=...) accepts, 0 included
InitAnyCap ==
    /\ EventStoreInit(0..MaxCap)
    /\ ApiIdle
    /\ Booted

SpecAnyCap == InitAnyCap /\ [][Next]_vars

\* the agent API; the event store (another process) is left as constructed
ApiInit ==
    /\ EventStoreInit({1})
    /\ ApiIdle
    /\ Booted

ThreadIdInputs ==
    {NoThreadId, UnknownThreadId} \cup DOMAIN threads

\* ApiSpec: one request followed with the agent's output in full; beside it
\* other requests open api threads
ApiNext ==
    \/ \E q \in Requests, e \in Endpoints, h \in HistoryModes,
          t \in ThreadIdInputs, u \in {None, "u1"} : StartRequest(q, e, h, t, u)
    \/ \E q \in Requests, ok \in BOOLEAN : LookupThread(q, ok)
    \/ \E q \in Requests, ok \in BOOLEAN : CreateNewThread(q, ok)
    \/ \E q \in Requests, ok \in BOOLEAN : ConnectMcp(q, ok)
    \/ \E q \in Requests, ok \in BOOLEAN : LoadHistory(q, ok)
    \/ \E q \in Requests, k \in {"delta", "message_id", "raise"},
          d \in Deltas, m \in RespIds : AgentStreamEvent(q, k, d, m)
    \/ \E q \in Requests, f \in RespIds \cup {None} : AgentStreamEnds(q, f)
    \/ \E q \in Requests, ok \in BOOLEAN, out \in Deltas \cup {<<>>},
          id \in RespIds \cup {None} : AgentRun(q, ok, out, id)
    \/ \E q \in Requests, ok \in BOOLEAN : SelectNextSeq(q, ok)
    \/ \E q \in Requests, ok \in BOOLEAN : InsertTextRow(q, ok)
    \/ \E q \in Requests, ok \in BOOLEAN : SaveApiResponse(q, ok)
    \/ \E q \in Requests, ok \in BOOLEAN : LeaveMcp(q, ok)
    \/ OtherRequestCreatesThread("api", "u1")
    \/ Tick

ApiSpec == ApiInit /\ [][ApiNext]_vars

\* ApiDbSpec: the tables in full (threads of every type opened by other
\* requests, the history endpoint), the agent's output in one value
ApiDbNext ==
    \/ \E q \in Requests, e \in Endpoints, h \in HistoryModes,
          t \in ThreadIdInputs, u \in {None, "u1"} : StartRequest(q, e, h, t, u)
    \/ \E q \in Requests, ok \in BOOLEAN : LookupThread(q, ok)
    \/ \E q \in Requests, ok \in BOOLEAN : CreateNewThread(q, ok)
    \/ \E q \in Requests, ok \in BOOLEAN : ConnectMcp(q, ok)
    \/ \E q \in Requests, ok \in BOOLEAN : LoadHistory(q, ok)
    \/ \E q \in Requests, k \in {"delta", "raise"} :
          AgentStreamEvent(q, k, <<"a">>, "r1")
    \/ \E q \in Requests, f \in {"r1", None} : AgentStreamEnds(q, f)
    \/ \E q \in Requests, ok \in BOOLEAN, id \in {"r1", None} :
          AgentRun(q, ok, <<"a">>, id)
    \/ \E q \in Requests, ok \in BOOLEAN : SelectNextSeq(q, ok)
    \/ \E q \in Requests, ok \in BOOLEAN : InsertTextRow(q, ok)
    \/ \E q \in Requests, ok \in BOOLEAN : SaveApiResponse(q, ok)
    \/ \E q \in Requests, ok \in BOOLEAN : LeaveMcp(q, ok)
    \/ \E h \in HistoryModes : OtherRequestCreatesThread(h, "u1")
    \/ \E t \in ThreadIdInputs \ {NoThreadId}, u \in UserIds : get_thread_history(t, u)
    \/ Tick

ApiDbSpec == ApiInit /\ [][ApiDbNext]_vars

\* ApiHistSpec: api history in full: beside the followed request, other
\* requests open api threads and record responses on any thread, and the
\* expiry period can go by; database failures are left to ApiDbSpec
ApiHistNext ==
    \/ \E q \in Requests, e \in Endpoints,
          t \in {NoThreadId} \cup DOMAIN threads : StartRequest(q, e, "api", t, "u1")
    \/ \E q \in Requests : LookupThread(q, TRUE)
    \/ \E q \in Requests : CreateNewThread(q, TRUE)
    \/ \E q \in Requests : ConnectMcp(q, TRUE)
    \/ \E q \in Requests : LoadHistory(q, TRUE)
    \/ \E q \in Requests, k \in {"delta", "raise"} :
          AgentStreamEvent(q, k, <<"a">>, "r1")
    \/ \E q \in Requests : AgentStreamEnds(q, "r2")
    \/ \E q \in Requests, ok \in BOOLEAN : AgentRun(q, ok, <<"a">>, "r2")
    \/ \E q \in Requests : SaveApiResponse(q, TRUE)
    \/ \E q \in Requests : LeaveMcp(q, TRUE)
    \/ OtherRequestCreatesThread("api", "u1")
    \/ \E t \in DOMAIN threads, id \in RespIds : OtherRequestSavesApiResponse(t, id)
    \/ Tick
    \/ LongWait

ApiHistSpec == ApiInit /\ [][ApiHistNext]_vars

\* TextHistSpec: text history in full: beside the followed request (in
\* either history mode), other requests open text threads and append turns
\* to any thread
TextHistNext ==
    \/ \E q \in Requests, e \in Endpoints, h \in {"api", "local_text"},
          t \in {NoThreadId} \cup DOMAIN threads : StartRequest(q, e, h, t, "u1")
    \/ \E q \in Requests : LookupThread(q, TRUE)
    \/ \E q \in Requests : CreateNewThread(q, TRUE)
    \/ \E q \in Requests : ConnectMcp(q, TRUE)
    \/ \E q \in Requests : LoadHistory(q, TRUE)
    \/ \E q \in Requests, k \in {"delta", "raise"} :
          AgentStreamEvent(q, k, <<"a">>, "r1")
    \/ \E q \in Requests : AgentStreamEnds(q, "r2")
    \/ \E q \in Requests, ok \in BOOLEAN : AgentRun(q, ok, <<"a">>, "r2")
    \/ \E q \in Requests : SelectNextSeq(q, TRUE)
    \/ \E q \in Requests : InsertTextRow(q, TRUE)
    \/ \E q \in Requests : SaveApiResponse(q, TRUE)
    \/ \E q \in Requests : LeaveMcp(q, TRUE)
    \/ OtherRequestCreatesThread("local_text", "u1")
    \/ \E t \in DOMAIN threads : OtherRequestAppendsText(t)
    \/ Tick

TextHistSpec == ApiInit /\ [][TextHistNext]_vars

\* DbInitSpec: one DatabaseManager from its construction on, with
\* concurrent callers of initialize() / ensure_db_initialized(), close(),
\* and rows written once the tables are there
DbInit ==
    /\ EventStoreInit({1})
    /\ ApiIdle
    /\ NotBooted

DbInitNext ==
    \/ \E c \in Callers : initialize(c)
    \/ \E c \in Callers, ok \in BOOLEAN : PoolCreated(c, ok)
    \/ \E c \in Callers, ok \in BOOLEAN : DropTables(c, ok)
    \/ \E c \in Callers, ok \in BOOLEAN : CreateTables(c, ok)
    \/ \E c \in Callers : CallerReturns(c)
    \/ close
    \/ WriteRow

DbInitSpec == DbInit /\ [][DbInitNext]_vars

\* WaitSpec: one call of wait_for_postgres; every await of the call returns
\* or raises in the end
WaitNext ==
    \/ \E u \in DatabaseUrls, n \in 0..MaxAttempts : wait_for_postgres(u, n)
    \/ \E ok \in BOOLEAN : Connect(ok)
    \/ \E ok \in BOOLEAN : Execute(ok)
    \/ \E ok \in BOOLEAN : CloseConnection(ok)
    \/ SleepOver

WaitSpec ==
    /\ DbInit
    /\ [][WaitNext]_vars
    /\ WF_vars(\E ok \in BOOLEAN : Connect(ok))
    /\ WF_vars(\E ok \in BOOLEAN : Execute(ok))
    /\ WF_vars(\E ok \in BOOLEAN : CloseConnection(ok))
    /\ WF_vars(SleepOver)

\* ------------------------------------------------ vocabulary of the claims
Cap == max_events_per_stream

\* the payloads a replay after id must hand over, given that `total` calls
\* had been made on stream s: calls CallPos(s, id)+1 .. total, in call order
SuffixAfter(s, id, total) ==
    [i \in 1..(total - CallPos(s, id)) |->
        EventMessage(stored[s][CallPos(s, id) + i].message,
                     stored[s][CallPos(s, id) + i].event_id)]

IsPrefix(a, b) ==
    Len(a) <= Len(b) /\ SubSeq(b, 1, Len(a)) = a

\* ids whose stream has had Cap or more calls since
EvictedIds(s) ==
    {stored[s][i].event_id : i \in 1..(Len(stored[s]) - Cap)}

\* the last min(Cap, k) of the k calls on stream s
RetainedCalls(s) ==
    SubSeq(stored[s],
           IF Len(stored[s]) > Cap THEN Len(stored[s]) - Cap + 1 ELSE 1,
           Len(stored[s]))

LogPositions ==
    {<<s, i>> \in (DOMAIN streams) \X (1..(MaxEvents + 1)) :
        i <= Len(streams[s].items)}

\* C1: on a stream with at most max_events_per_stream store_event calls, a
\* replay after an id one of them returned that returns has handed over exactly
\* the entries stored after id, in store order, once each, under their ids,
\* and returns that stream; while it runs it has handed over a prefix of
\* them; RuntimeError needs a store_event on the stream after the call.
C1_ReplayExactSuffix ==
    \A r \in ReplayTasks :
        LET t == tasks[r]
            s == StreamOf(t.last_event_id)
        IN  (t.pc # "idle" /\ t.call_status # "never" /\ t.call_total <= Cap) =>
                LET want == SuffixAfter(s, t.last_event_id, t.call_total)
                IN  /\ t.pc = "returned" => t.result = s /\ t.delivered = want
                    /\ t.pc \in {"awaiting", "raised"} => IsPrefix(t.delivered, want)
                    /\ (t.pc = "raised" /\ t.exc = "RuntimeError")
                          => Len(stored[s]) > t.call_total

C1_Witness ==
    \E r \in ReplayTasks :
        /\ tasks[r].pc = "returned"
        /\ tasks[r].call_status = "retained"
        /\ tasks[r].call_total <= Cap
        /\ Len(tasks[r].delivered) >= 2

\* C2: an id with max_events_per_stream or more later calls on its stream is
\* not in event_index, a replay after it returns None with nothing handed
\* over, and no stream has more than max_events_per_stream index entries.
C2_EvictedNotFound ==
    /\ \A s \in StreamIds : \A id \in EvictedIds(s) : id \notin DOMAIN event_index
    /\ \A r \in ReplayTasks :
          (tasks[r].pc # "idle" /\ tasks[r].call_status = "evicted") =>
              /\ tasks[r].pc = "returned"
              /\ tasks[r].result = None
              /\ tasks[r].delivered = <<>>
    /\ \A s \in StreamIds :
          Cardinality({id \in DOMAIN event_index : event_index[id].stream_id = s}) <= Cap

C2_Witness ==
    \E r \in ReplayTasks :
        /\ tasks[r].call_status = "evicted"
        /\ tasks[r].pc = "returned"
        /\ \E s \in StreamIds :
              /\ Len(stored[s]) > Cap
              /\ Cardinality({id \in DOMAIN event_index :
                                 event_index[id].stream_id = s}) = Cap

\* C3: a replay after an id no store_event call has returned returns None,
\* calls the callback zero times and raises nothing.
C3_UnknownIdNotFound ==
    \A r \in ReplayTasks :
        (tasks[r].pc # "idle" /\ tasks[r].call_status = "never") =>
            /\ tasks[r].pc = "returned"
            /\ tasks[r].result = None
            /\ tasks[r].delivered = <<>>
            /\ tasks[r].exc = None

C3_Witness ==
    \E r \in ReplayTasks :
        /\ tasks[r].call_status = "never"
        /\ tasks[r].pc = "returned"
        /\ tasks[r].last_event_id = MaxEvents + 1
        /\ DOMAIN event_index # {}

\* C4: in every state a task can observe, every id in event_index maps to the
\* entry of that id, which sits at exactly one position of exactly one log,
\* the log of its stream_id; and every entry of a log is in event_index
\* under its id and belongs to that log's stream.
C4_IndexMatchesLogs ==
    /\ \A id \in DOMAIN event_index :
          LET e == event_index[id]
          IN  /\ e.event_id = id
              /\ e.stream_id \in DOMAIN streams
              /\ Cardinality({p \in LogPositions :
                                 streams[p[1]].items[p[2]].event_id = id}) = 1
              /\ \E i \in 1..Len(streams[e.stream_id].items) :
                    streams[e.stream_id].items[i] = e
    /\ \A p \in LogPositions :
          LET e == streams[p[1]].items[p[2]]
          IN  /\ e.stream_id = p[1]
              /\ e.event_id \in DOMAIN event_index
              /\ event_index[e.event_id] = e

C4_Witness ==
    \E r \in ReplayTasks :
        /\ tasks[r].pc = "awaiting"
        /\ Len(stored[tasks[r].stream_id]) > tasks[r].call_total
        /\ Len(stored[tasks[r].stream_id]) > Cap
        /\ Cardinality(DOMAIN streams) = 2

\* C5: a log never holds more than max_events_per_stream entries; a
\* store_event on a log below capacity appends the new entry (length + 1), on
\* a log at capacity it drops the oldest entry and appends the new one
\* (length stays max_events_per_stream).
C5_BoundedLog ==
    /\ [](\A s \in DOMAIN streams : Len(streams[s].items) <= Cap)
    /\ [][\A s \in StreamIds :
            stored'[s] # stored[s] =>
                LET old == IF s \in DOMAIN streams THEN streams[s].items ELSE <<>>
                    new == streams'[s].items
                    e == stored'[s][Len(stored'[s])]
                IN  IF Len(old) < Cap
                    THEN new = Append(old, e) /\ Len(new) = Len(old) + 1
                    ELSE new = Append(Tail(old), e) /\ Len(new) = Cap]_vars

C5_Witness ==
    \E s \in DOMAIN streams :
        /\ Len(streams[s].items) = Cap
        /\ Len(stored[s]) > Cap
        /\ Cap >= 2

\* C6: whatever has been evicted, a replay after an id still in its log that
\* returns has handed over every entry ever stored on the stream after id,
\* in order; a replay after an evicted id returns None with nothing handed
\* over.  With capacity 2 and stores m1, m2, m3 -> e1, e2, e3: after e1 not
\* found, after e2 exactly [m3].
C6_ReplayAfterEviction ==
    \A r \in ReplayTasks :
        LET t == tasks[r]
            s == StreamOf(t.last_event_id)
        IN  /\ (t.pc = "returned" /\ t.call_status = "retained") =>
                  /\ t.result = s
                  /\ t.delivered = SuffixAfter(s, t.last_event_id, t.call_total)
            /\ (t.pc = "returned" /\ t.call_status = "evicted") =>
                  t.result = None /\ t.delivered = <<>>
            /\ (t.pc \in {"awaiting", "raised"}) =>
                  /\ t.call_status = "retained"
                  /\ IsPrefix(t.delivered,
                              SuffixAfter(s, t.last_event_id, t.call_total))

C6_Witness ==
    \E r \in ReplayTasks : \E s \in StreamIds :
        /\ Cap = 2
        /\ Len(stored[s]) = 3
        /\ tasks[r].pc = "returned"
        /\ tasks[r].call_total = 3
        /\ tasks[r].last_event_id = stored[s][2].event_id
        /\ tasks[r].delivered =
              <<EventMessage(stored[s][3].message, stored[s][3].event_id)>>

\* C7: a replay returns the stream its id was stored under, and everything
\* it hands over was stored under that stream.
C7_ReplayStaysOnStream ==
    \A r \in ReplayTasks :
        LET t == tasks[r]
        IN  /\ (t.pc = "returned" /\ t.result # None) =>
                  t.result = StreamOf(t.last_event_id)
            /\ \A i \in 1..Len(t.delivered) :
                  /\ StreamOf(t.delivered[i].event_id) = StreamOf(t.last_event_id)
                  /\ StreamOf(t.last_event_id) # None

C7_Witness ==
    \E r \in ReplayTasks : \E a, b \in StreamIds :
        /\ a # b
        /\ tasks[r].pc = "returned"
        /\ tasks[r].result = b
        /\ Len(tasks[r].delivered) >= 1
        /\ Len(stored[a]) >= 1
        /\ Len(stored[b]) >= 2
        /\ stored[a][1].event_id > stored[b][1].event_id
        /\ stored[a][1].event_id < stored[b][Len(stored[b])].event_id

\* C8: no store_event on a stream takes effect between the start of a replay
\* on that stream and its last delivery: while a replay still has entries to
\* hand over, its stream's log is the one it started on.
C8_NoStoreDuringReplay ==
    \A r \in ReplayTasks :
        (tasks[r].pc = "awaiting" /\ tasks[r].it_counter > 0) =>
            /\ streams[tasks[r].stream_id].state = tasks[r].it_state
            /\ Len(stored[tasks[r].stream_id]) = tasks[r].call_total

\* C9: a replay that store_event calls on its stream run concurrently with
\* finishes normally: it does not end in an exception of its own.
C9_ReplayFinishesNormally ==
    \A r \in ReplayTasks :
        (tasks[r].pc = "raised" /\ Len(stored[tasks[r].stream_id]) > tasks[r].call_total)
            => tasks[r].exc # "RuntimeError"

\* C10: each log is the calls made on its stream, in the order they were
\* made, less the oldest ones beyond capacity, nothing lost and nothing
\* twice; the id a call returned indexes the stream and message of that call.
C10_StoresSerialized ==
    \A s \in StreamIds :
        Len(stored[s]) > 0 =>
            /\ s \in DOMAIN streams
            /\ streams[s].items = RetainedCalls(s)
            /\ \A i \in 1..Len(RetainedCalls(s)) :
                  LET c == RetainedCalls(s)[i]
                  IN  /\ c.event_id \in DOMAIN event_index
                      /\ event_index[c.event_id] =
                            EventEntry(c.event_id, s, c.message)

C10_Witness ==
    \E s \in StreamIds :
        /\ Len(stored[s]) > Cap
        /\ Cap >= 2
        /\ streams[s].items[1].message # streams[s].items[2].message
        /\ \E s2 \in StreamIds \ {s} : Len(stored[s2]) >= 1

\* C12: a replay after the id returned by the latest store_event call on its
\* stream (the id still retained) returns that stream's id, which is not
\* None, hands nothing to the callback and raises nothing; every replay that
\* returns for an unknown or evicted id returns None.
C12_LatestIdEmptySuccess ==
    \A r \in ReplayTasks :
        LET t == tasks[r]
            s == StreamOf(t.last_event_id)
        IN  /\ (t.pc # "idle" /\ t.call_status = "retained"
                   /\ CallPos(s, t.last_event_id) = t.call_total) =>
                  /\ t.pc = "returned"
                  /\ t.result = s
                  /\ t.result # None
                  /\ t.delivered = <<>>
                  /\ t.exc = None
            /\ (t.pc = "returned" /\ t.call_status \in {"never", "evicted"}) =>
                  t.result = None

C12_Witness ==
    \E r \in ReplayTasks :
        LET t == tasks[r]
        IN  /\ t.pc = "returned"
            /\ t.call_status = "retained"
            /\ t.call_total >= 2
            /\ CallPos(StreamOf(t.last_event_id), t.last_event_id) = t.call_total
            /\ t.delivered = <<>>
            /\ t.result = StreamOf(t.last_event_id)

\* C13: with max_events_per_stream >= 1, a stream has a log exactly when a
\* store_event call has been made for it, and no step (a replay included)
\* removes a log.
C13_LogIffStored ==
    /\ [](DOMAIN streams = {s \in StreamIds : Len(stored[s]) > 0})
    /\ [][DOMAIN streams \subseteq DOMAIN streams']_vars

C13_Witness ==
    /\ \E s \in StreamIds : s \in DOMAIN streams
    /\ \E s \in StreamIds :
          /\ s \notin DOMAIN streams
          /\ \E r \in ReplayTasks :
                tasks[r].pc = "returned" /\ tasks[r].call_status = "never"

\* C14: whatever the capacity, 0 included, no store_event call raises.
C14_StoreNeverRaises ==
    store_exc = None

\* the requests that went through /invoke_stream
StreamRuns ==
    {q \in Requests : reqs[q].pc # "idle" /\ reqs[q].endpoint = "invoke_stream"}

\* the text of the 'delta' events of evs, in emission order
RECURSIVE DeltaText(_)
DeltaText(evs) ==
    IF evs = <<>> THEN <<>>
    ELSE (IF Head(evs).type = "delta" THEN Head(evs).content ELSE <<>>)
         \o DeltaText(Tail(evs))

\* C16: every run of generate_stream that has ended, normally or by an
\* exception, has emitted 'stream_end' as its last event.
C16_StreamEndIsLast ==
    \A q \in StreamRuns :
        reqs[q].pc \in {"finished", "crashed"} =>
            /\ reqs[q].events # <<>>
            /\ reqs[q].events[Len(reqs[q].events)].type = "stream_end"

\* C17: a /invoke_stream response that has emitted anything starts with the
\* 'metadata' event of the run's thread id and new_thread_created flag; no
\* other 'metadata' follows, and a 'done' event carries the same thread id,
\* the one history was written under.
C17_MetadataFirst ==
    \A q \in StreamRuns :
        LET r == reqs[q]
        IN  r.events # <<>> =>
              /\ r.events[1] = MetadataEvent(r.current_thread_id, r.new_thread_created)
              /\ \A i \in 2..Len(r.events) :
                    /\ r.events[i].type # "metadata"
                    /\ r.events[i].type = "done" =>
                          r.events[i].thread_id = r.events[1].thread_id
              /\ r.saved_under \in {NoThreadId, r.events[1].thread_id}

C17_Witness ==
    \E q \in StreamRuns :
        LET r == reqs[q]
        IN  /\ r.pc = "finished"
            /\ r.thread_id = UnknownThreadId
            /\ Len(r.events) >= 5
            /\ r.events[1].type = "metadata"
            /\ r.events[1].new_thread_created
            /\ r.events[1].thread_id # r.thread_id
            /\ r.events[2].type = "delta"
            /\ r.events[Len(r.events) - 1].type = "done"
            /\ r.saved_under = r.events[1].thread_id

\* the requests whose thread has been settled: found, or newly made
SettledRuns ==
    {q \in Requests : reqs[q].thread_found \/ reqs[q].new_thread_created}

\* C18: a request whose thread_id names an existing row runs on that thread,
\* adds no row and reports new_thread_created = false; any other request
\* adds exactly one row, typed after history_mode, runs on it and reports
\* new_thread_created = true; the response and 'metadata' say so.
C18_ThreadSettlement ==
    \A q \in SettledRuns :
        LET r == reqs[q]
        IN  /\ r.thread_found =>
                  /\ r.thread_id \in DOMAIN threads
                  /\ r.current_thread_id = r.thread_id
                  /\ ~r.new_thread_created
                  /\ ~r.row_inserted
            /\ ~r.thread_found =>
                  /\ r.new_thread_created
                  /\ r.row_inserted
                  /\ r.current_thread_id # r.thread_id
                  /\ r.current_thread_id \in DOMAIN threads
                  /\ threads[r.current_thread_id].thread_type =
                        NewThreadType(r.history_mode)
            /\ r.response.status = 200 =>
                  /\ r.response.thread_id = r.current_thread_id
                  /\ r.response.new_thread_created = r.new_thread_created
            /\ r.events # <<>> =>
                  r.events[1] = MetadataEvent(r.current_thread_id, r.new_thread_created)

\* C19: GET /threads/{thread_id}/history answers 200 exactly when the thread
\* exists and its stored user_id is the caller's; otherwise (no such thread,
\* another owner, no owner) it answers 403 and carries no history.
C19_HistoryOnlyToOwner ==
    history_reply # NoReply =>
        LET t == history_reply.thread_id
            owned == t \in DOMAIN threads /\ threads[t].user_id = history_reply.user_id
        IN  /\ history_reply.status = 200 <=> owned
            /\ history_reply.status # 200 =>
                  /\ history_reply.status = 403
                  /\ history_reply.history = <<>>
                  /\ history_reply.history_type = None

C19_Witness ==
    /\ history_reply.status = 200
    /\ history_reply.history # <<>>
    /\ history_reply.user_id = "u1"
    /\ threads[history_reply.thread_id].user_id = "u1"

\* C20: in a /invoke_stream run that emits 'done', the done event's
\* final_output is the text of the 'delta' events emitted before it, joined
\* in emission order, and no 'delta' follows 'done'.
C20_DoneIsConcatenation ==
    \A q \in StreamRuns :
        LET evs == reqs[q].events
        IN  \A i \in 1..Len(evs) :
               evs[i].type = "done" =>
                  /\ evs[i].content = DeltaText(SubSeq(evs, 1, i - 1))
                  /\ \A j \in (i + 1)..Len(evs) : evs[j].type # "delta"

C20_Witness ==
    \E q \in StreamRuns :
        LET evs == reqs[q].events
        IN  /\ reqs[q].pc = "finished"
            /\ \E i \in 1..Len(evs) :
                  /\ evs[i].type = "done"
                  /\ evs[i].content = <<"a", "b">>
            /\ evs[Len(evs)].type = "stream_end"

\* C28: a step of replay_events_after (the call, a resumption after the
\* callback, the callback raising) leaves streams and event_index as they
\* were; only store_event steps change them.
C28_ReplayReadOnly ==
    [][/\ tasks' # tasks => (streams' = streams /\ event_index' = event_index)
       /\ (streams' # streams \/ event_index' # event_index) =>
             uuid_counter' = uuid_counter + 1]_vars

C28_Witness ==
    \E r \in ReplayTasks :
        LET t == tasks[r]
        IN  /\ t.pc = "raised"
            /\ t.exc = "CallbackError"
            /\ Len(t.delivered) >= 2
            /\ Len(stored[t.stream_id]) = t.call_total
            /\ streams[t.stream_id].items = RetainedCalls(t.stream_id)
            /\ t.last_event_id \in DOMAIN event_index

\* C27: create_thread under an id that has a row keeps the row's
\* thread_type, user_id, user_name and created_at, sets last_activity, adds
\* no row and leaves both history tables alone; no step of any kind changes
\* those four columns of an existing row.
C27_CreateExistingKeepsRow ==
    [][/\ \A id \in DOMAIN threads :
             /\ id \in DOMAIN threads'
             /\ threads'[id].thread_type = threads[id].thread_type
             /\ threads'[id].user_id = threads[id].user_id
             /\ threads'[id].user_name = threads[id].user_name
             /\ threads'[id].created_at = threads[id].created_at
       /\ \A q \in Requests :
             (reqs[q].pc = "create" /\ reqs'[q].new_thread_created
                /\ reqs'[q].current_thread_id \in DOMAIN threads) =>
                   /\ threads' = [threads EXCEPT
                                     ![reqs'[q].current_thread_id].last_activity = clock]
                   /\ api_history' = api_history
                   /\ text_history' = text_history]_vars

C27_Witness ==
    \E q \in Requests :
        LET r == reqs[q]
        IN  /\ r.pc = "mcp"
            /\ r.new_thread_created
            /\ ~r.row_inserted
            /\ r.user_id = None
            /\ threads[r.current_thread_id].user_id = "u1"
            /\ Cardinality(DOMAIN threads) = 1

\* C24: every text_history row belongs to a thread of type 'text' and every
\* api_history row to a thread of type 'api' (so a 'temp' thread has no
\* history row), whatever history_mode the requests on a thread carry.
C24_HistoryMatchesThreadType ==
    /\ \A i \in 1..Len(text_history) :
          /\ text_history[i].thread_id \in DOMAIN threads
          /\ threads[text_history[i].thread_id].thread_type = "text"
    /\ \A i \in 1..Len(api_history) :
          /\ api_history[i].thread_id \in DOMAIN threads
          /\ threads[api_history[i].thread_id].thread_type = "api"

\* the unexpired api_history entries of thread t at the present reading
UnexpiredEntries(t) ==
    {i \in 1..Len(api_history) :
        api_history[i].thread_id = t /\ api_history[i].expires_at > clock}

\* C21: every api_history entry expires EXPIRY_DAYS after it was recorded;
\* the history read of an api-mode turn on thread T hands the run the
\* response id of an unexpired entry of T than which no unexpired entry of T
\* is newer, and no id when T has no unexpired entry.
C21_PreviousResponseIsLatestValid ==
    /\ [](\A i \in 1..Len(api_history) :
             api_history[i].expires_at =
                api_history[i].created_at + EXPIRY_DAYS * TicksPerDay)
    /\ [][\A q \in Requests :
            (reqs[q].pc = "load" /\ reqs'[q].pc = "run"
               /\ reqs[q].history_mode = "api") =>
                LET valid == UnexpiredEntries(reqs[q].current_thread_id)
                    prev == reqs'[q].previous_response_id
                IN  IF valid = {} THEN prev = None
                    ELSE \E i \in valid :
                            /\ api_history[i].response_id = prev
                            /\ \A j \in valid : api_history[j].created_at
                                                    <= api_history[i].created_at]_vars

C21_Witness ==
    \E q \in Requests :
        LET r == reqs[q]
        IN  /\ r.pc = "run"
            /\ r.history_mode = "api"
            /\ r.thread_found
            /\ r.previous_response_id = "r2"
            /\ \E i, j \in UnexpiredEntries(r.current_thread_id) :
                  /\ api_history[i].response_id = "r1"
                  /\ api_history[j].response_id = "r2"
                  /\ api_history[i].created_at < api_history[j].created_at

\* C22: the text_history rows of a thread carry the sequence numbers 1..n,
\* each once, in the order the rows were appended, so get_text_history
\* returns the turns in that order.
C22_SequenceNumbersDense ==
    \A t \in DOMAIN threads :
        LET rows == RowsOf(text_history, t)
        IN  /\ \A i \in 1..Len(rows) : rows[i].sequence_number = i
            /\ GetTextHistory(text_history, t) =
                  [i \in 1..Len(rows) |->
                      [user_input |-> rows[i].user_input,
                       assistant_response |-> rows[i].assistant_response]]

\* C26: a request whose agent run raised is over at once (500, or 'error'
\* then 'stream_end'); the step in which the run raises changes no history
\* row, the request takes no step after it, and a request writes history
\* only from the save that follows a completed run.
C26_NoHistoryOnFailedRun ==
    /\ [](\A q \in Requests :
             reqs[q].failed_at = "run" =>
                /\ reqs[q].pc = "finished"
                /\ reqs[q].saved_under = NoThreadId
                /\ reqs[q].endpoint = "invoke" => reqs[q].response.status = 500
                /\ reqs[q].endpoint = "invoke_stream" =>
                      /\ Len(reqs[q].events) >= 3
                      /\ reqs[q].events[Len(reqs[q].events) - 1] = ErrorEvent)
    /\ [][\A q \in Requests :
            /\ (reqs[q].pc = "run" /\ reqs'[q].failed_at = "run") =>
                  (api_history' = api_history /\ text_history' = text_history)
            /\ reqs[q].failed_at = "run" => reqs'[q] = reqs[q]
            /\ reqs'[q].saved_under # reqs[q].saved_under =>
                  reqs[q].pc \in {"save", "save_insert"}]_vars

C26_Witness ==
    \E q \in Requests :
        LET r == reqs[q]
        IN  /\ r.failed_at = "run"
            /\ r.endpoint = "invoke_stream"
            /\ r.history_mode = "local_text"
            /\ r.final_output # <<>>
            /\ r.thread_found
            /\ RowsOf(text_history, r.current_thread_id) # <<>>

\* the positions of the outcome events ('done', 'error') in evs
Outcomes(evs) ==
    {i \in 1..Len(evs) : evs[i].type \in {"done", "error"}}

\* C25: a stream that emitted 'metadata' and has ended holds exactly one
\* outcome event, a 'done' or an 'error', before 'stream_end'.
C25_ExactlyOneOutcome ==
    \A q \in StreamRuns :
        (reqs[q].pc = "finished" /\ reqs[q].events # <<>>) =>
            Cardinality(Outcomes(reqs[q].events)) = 1

\* C23: the destructive schema setup of one DatabaseManager runs at most
\* once, and never destroys a row written through the manager.
C23_SchemaSetupOnce ==
    /\ schema_drops <= 1
    /\ ~db_tables.rows_dropped

\* a failed attempt, whichever await raised
FailedAttempts ==
    {"connect", "execute", "close"}

\* C29: wait_for_postgres ends; it calls asyncpg.connect at most
\* max_attempts times; it returns True right after the first attempt that
\* succeeds and does nothing more; it raises after exactly max_attempts
\* attempts that all failed; with DATABASE_URL unset it raises before any
\* attempt.
C29_WaitTerminates ==
    /\ [](/\ wait.connects <= wait.max_attempts
          /\ wait.pc = "returned" =>
                /\ wait.result = TRUE
                /\ wait.connects = Len(wait.log)
                /\ wait.log[Len(wait.log)] = "ok"
                /\ \A i \in 1..(Len(wait.log) - 1) : wait.log[i] \in FailedAttempts
          /\ (wait.pc = "raised" /\ wait.exc = "Exception") =>
                /\ wait.connects = wait.max_attempts
                /\ Len(wait.log) = wait.max_attempts
                /\ \A i \in 1..Len(wait.log) : wait.log[i] \in FailedAttempts
          /\ (wait.pc # "idle" /\ wait.database_url = None) =>
                /\ wait.pc = "raised"
                /\ wait.exc = "ValueError"
                /\ wait.connects = 0)
    /\ [][wait.pc \in {"returned", "raised"} => wait' = wait]_vars
    /\ (wait.pc # "idle") ~> (wait.pc \in {"returned", "raised"})

C29_Witness ==
    /\ wait.pc = "returned"
    /\ wait.max_attempts = MaxAttempts
    /\ wait.connects = MaxAttempts
    /\ wait.log = <<"connect", "execute", "ok">>

====
